---- MODULE Spec2Model ----
(***************************************************************************)
(* Dynamic schema engine (junonan824/dynamicSchema): schema definitions,   *)
(* the dynamic data validator, the record store and the search predicate   *)
(* evaluator, modelled from src/app.                                       *)
(***************************************************************************)
EXTENDS Integers, Sequences, FiniteSets, TLC

VARIABLES
    schemas,   \* table dynamic_schemas: schema id -> row [exists, fields]: the persisted "fields" mapping
    mem,       \* the Session's loaded DynamicSchema objects: schema id -> the row as held in memory
    records,   \* table dynamic_data: record id -> row [exists, schema_id, data, is_deleted]
    last,      \* the response to the latest request: [op, status, why]
    vS,        \* validator harness: schema fields under validation
    vD,        \* validator harness: raw document
    vR,        \* validator harness: validate_data(vS, vD)
    vR2,       \* validator harness: validate_data(vS, vR.doc)
    sQ,        \* search harness: the search request
    sR,        \* search harness: its response
    inflight   \* PATCH requests run in steps: writer -> [pc, rid, delta, base, validated]

vars == <<schemas, mem, records, last, vS, vD, vR, vR2, sQ, sR, inflight>>

validation == <<vS, vD, vR, vR2>>
search == <<sQ, sR>>

\* the requests that can be in flight at once, and a writer with no request
Writers == {1, 2}
Idle == [pc |-> "idle", rid |-> 0, delta |-> << >>, base |-> << >>, validated |-> << >>]
NoneInFlight == [w \in Writers |-> Idle]

-----------------------------------------------------------------------------
(* JSON values.  Every value is a record of the same shape so that values   *)
(* of different JSON kinds can be compared.                                 *)

Val(k, i, s) == [k |-> k, i |-> i, s |-> s]
VNull    == Val("null", 0, "")
VInt(n)  == Val("int", n, "")
VFloat(n) == Val("float", n, "")
VStr(t)  == Val("str", 0, t)
VTrue    == Val("bool", 1, "")
VFalse   == Val("bool", 0, "")
VDateTime(n) == Val("datetime", n, "")

\* Decimal numerals of the integers of the model: str(n) and int(s).
Numerals == <<"0", "1", "2", "3">>
IsNumeral(s) == \E n \in 1..Len(Numerals) : Numerals[n] = s
IntOfNumeral(s) == (CHOOSE n \in 1..Len(Numerals) : Numerals[n] = s) - 1
NumeralOf(n) == IF n \in 0..(Len(Numerals) - 1) THEN Numerals[n + 1] ELSE "big"

Absent == "absent"
EmptyDoc == [k \in {} |-> VNull]

-----------------------------------------------------------------------------
(* Field definitions: the entries of SchemaDefinition.fields.  `type` is    *)
(* the 'type' property (Absent when the key is missing), `items` is the     *)
(* items.type of an array field (Absent when the 'items' key is missing),   *)
(* `properties` tells whether the 'properties' key is present.              *)

FieldDef(t, req, hasDef, def, items, props) ==
    [type |-> t, required |-> req, hasDefault |-> hasDef, default |-> def,
     items |-> items, properties |-> props]

valid_types == {"string", "number", "integer", "boolean", "array", "object", "date", "datetime"}

\* SchemaDefinition.validate_field_definitions, for one field
FieldDefinitionOkNoItemsCheck(fd) ==
    /\ fd.type # Absent
    /\ fd.type \in valid_types
    /\ (fd.type = "object" => fd.properties)

FieldDefinitionOk(fd) ==
    /\ fd.type # Absent
    /\ fd.type \in valid_types
    /\ (fd.type = "array" => fd.items # Absent)
    /\ (fd.type = "object" => fd.properties)

\* SchemaDefinition(**schema_definition) succeeds
validate_field_definitions(fields) ==
    \A n \in DOMAIN fields : FieldDefinitionOk(fields[n])

-----------------------------------------------------------------------------
(* DynamicDataValidator                                                     *)

\* get_pydantic_type: the runtime kind a field type is mapped to.  'date' is
\* mapped to datetime.date, which (datetime being the class imported from the
\* datetime module) is a method, not a type: kind "method".
get_pydantic_type(t) ==
    CASE t = "string"   -> "str"
      [] t = "number"   -> "float"
      [] t = "integer"  -> "int"
      [] t = "boolean"  -> "bool"
      [] t = "date"     -> "method"
      [] t = "datetime" -> "datetime"
      [] t = "array"    -> "list"
      [] t = "object"   -> "dict"
      [] OTHER          -> "any"

Ok(v) == [ok |-> TRUE, v |-> v]
Fail == [ok |-> FALSE, v |-> VNull]

\* The validators the model class runs for a non-null value of each kind.
Coerce(kind, v) ==
    CASE kind = "str" ->
           IF v.k = "str" THEN Ok(v)
           ELSE IF v.k = "int" THEN Ok(VStr(NumeralOf(v.i)))
           ELSE IF v.k = "bool" THEN Ok(VStr(IF v.i = 1 THEN "True" ELSE "False"))
           ELSE Fail
      [] kind = "int" ->
           IF v.k = "int" THEN Ok(v)
           ELSE IF v.k = "bool" THEN Ok(VInt(v.i))
           ELSE IF v.k = "str" /\ IsNumeral(v.s) THEN Ok(VInt(IntOfNumeral(v.s)))
           ELSE Fail
      [] kind = "float" ->
           IF v.k = "float" THEN Ok(v)
           ELSE IF v.k \in {"int", "bool"} THEN Ok(VFloat(v.i))
           ELSE IF v.k = "str" /\ IsNumeral(v.s) THEN Ok(VFloat(IntOfNumeral(v.s)))
           ELSE Fail
      [] kind = "bool" ->
           IF v.k = "bool" THEN Ok(v)
           ELSE IF v.k = "int" /\ v.i \in {0, 1} THEN Ok(Val("bool", v.i, ""))
           ELSE IF v.k = "str" /\ v.s \in {"1", "true", "True"} THEN Ok(VTrue)
           ELSE IF v.k = "str" /\ v.s \in {"0", "false", "False"} THEN Ok(VFalse)
           ELSE Fail
      [] kind = "datetime" ->
           IF v.k = "datetime" THEN Ok(v)
           ELSE IF v.k \in {"int", "bool"} THEN Ok(VDateTime(v.i))
           ELSE IF v.k = "str" /\ IsNumeral(v.s) THEN Ok(VDateTime(IntOfNumeral(v.s)))
           ELSE Fail
      [] kind = "any" -> Ok(v)
      [] OTHER -> Fail   \* "list", "dict": no scalar is a list or a mapping

\* create_model_from_schema raises (not a ValidationError) when a field's
\* annotation is not a type: a 'date' field, or an array of 'date' items.
ModelCreationFails(fields) ==
    \E n \in DOMAIN fields :
        \/ get_pydantic_type(fields[n].type) = "method"
        \/ fields[n].type = "array" /\ get_pydantic_type(fields[n].items) = "method"

\* Optional[...] annotation, or a declared default of None
AllowNone(fd) == ~fd.required \/ (fd.hasDefault /\ fd.default = VNull)

FieldDefaultUndeclared(fd) == IF fd.required THEN Fail ELSE Ok(VNull)

\* default = field_def.get('default', ... if is_required else None)
FieldDefault(fd) == IF fd.hasDefault THEN Ok(fd.default)
                    ELSE IF fd.required THEN Fail ELSE Ok(VNull)

\* The value of one declared field of model_class(**data)
FieldResult(fd, data, n) ==
    IF n \notin DOMAIN data THEN FieldDefault(fd)
    ELSE IF data[n] = VNull THEN (IF AllowNone(fd) THEN Ok(VNull) ELSE Fail)
    ELSE Coerce(get_pydantic_type(fd.type), data[n])

\* validate_data(schema_def, data): "crash" when the model class cannot be
\* built, "invalid" on ValidationError (re-raised as ValueError), otherwise
\* validated_data.dict(): one entry per declared field.
validate_data(fields, data) ==
    IF ModelCreationFails(fields) THEN [outcome |-> "crash", doc |-> EmptyDoc]
    ELSE IF \E n \in DOMAIN fields : ~FieldResult(fields[n], data, n).ok
         THEN [outcome |-> "invalid", doc |-> EmptyDoc]
    ELSE [outcome |-> "ok",
          doc |-> [n \in DOMAIN fields |-> FieldResult(fields[n], data, n).v]]


-----------------------------------------------------------------------------
(* Inputs of the validator harness.                                         *)

VNames == {"f", "g"}
VKeys  == {"f", "g", "z"}      \* "z" is never declared
VVals  == {VInt(1), VStr("1"), VStr("a"), VNull}
VFieldDefs ==
    { FieldDef("string",  TRUE,  FALSE, VNull,     Absent, FALSE),
      FieldDef("integer", FALSE, FALSE, VNull,     Absent, FALSE),
      FieldDef("integer", FALSE, TRUE,  VStr("1"), Absent, FALSE),
      FieldDef("string",  TRUE,  TRUE,  VStr("a"), Absent, FALSE),
      FieldDef("boolean", FALSE, TRUE,  VInt(3),   Absent, FALSE) }

Maps(keys, vals) == UNION { [d -> vals] : d \in SUBSET keys }

NoResult == [outcome |-> "none", doc |-> EmptyDoc]

\* a criteria node: a leaf {field_path, operator, value}, {"and": kids} or {"or": kids}
Leaf(f, op, v) == [kind |-> "leaf", field |-> f, op |-> op, value |-> v, kids |-> <<>>]
AndNode(kids) == [kind |-> "and", field |-> "", op |-> "", value |-> VNull, kids |-> kids]
OrNode(kids) == [kind |-> "or", field |-> "", op |-> "", value |-> VNull, kids |-> kids]

NoQuery == [asked |-> FALSE, endpoint |-> "", schema_id |-> 0, criteria |-> AndNode(<<>>)]
NoFound == [error |-> FALSE, ids |-> {}]

InitDb ==
    /\ schemas = EmptyDoc
    /\ mem = EmptyDoc
    /\ records = EmptyDoc
    /\ last = [op |-> "none", status |-> 0, why |-> "", body |->
                   [deleted_count |-> 0, not_found |-> <<>>, success |-> <<>>, failed |-> <<>>,
                    total |-> 0, migrated |-> 0]]

InitValidate ==
    /\ InitDb
    /\ vS \in Maps(VNames, VFieldDefs)
    /\ vD \in Maps(VKeys, VVals)
    /\ vR = NoResult
    /\ vR2 = NoResult
    /\ sQ = NoQuery /\ sR = NoFound
    /\ inflight = NoneInFlight

\* validated = validate_data(schema_def, data)
Validate ==
    /\ vR = NoResult
    /\ vR' = validate_data(vS, vD)
    /\ UNCHANGED <<schemas, mem, records, last, vS, vD, vR2, search, inflight>>

\* validate_data(schema_def, validated): an already validated document is validated again
Revalidate ==
    /\ vR.outcome = "ok"
    /\ vR2 = NoResult
    /\ vR2' = validate_data(vS, vR.doc)
    /\ UNCHANGED <<schemas, mem, records, last, vS, vD, vR, search, inflight>>

NextValidate == Validate \/ Revalidate

SpecValidate == InitValidate /\ [][NextValidate]_vars

\* C5: validate_data is idempotent: re-validating a validated document
\* succeeds and gives a value-equal document.
C5_Idempotent ==
    vR2 # NoResult => (vR2.outcome = "ok" /\ vR2.doc = vR.doc)

\* C6: an optional field without default that is absent from the input is
\* omitted from the validated output; an absent field with a default appears
\* with its default.
C6_AbsentOptionalOmitted ==
    vR.outcome = "ok" =>
        \A n \in DOMAIN vS :
            n \notin DOMAIN vD =>
                IF vS[n].hasDefault
                THEN n \in DOMAIN vR.doc /\ vR.doc[n] = vS[n].default
                ELSE (~vS[n].required => n \notin DOMAIN vR.doc)

\* C6 as amended: in a successful output of validate_data every declared
\* field that is absent from the input is present: with its default when it
\* declares one, with null when it is optional and declares none.
C6_AbsentOptionalNull ==
    vR.outcome = "ok" =>
        \A n \in DOMAIN vS : n \notin DOMAIN vD =>
            /\ n \in DOMAIN vR.doc
            /\ vR.doc[n] = IF vS[n].hasDefault THEN vS[n].default ELSE VNull

\* C6 witness: a validation succeeded on an input that lacks an optional
\* field without default and a field with a default.
C6_Witness ==
    /\ vR.outcome = "ok"
    /\ \E n \in DOMAIN vS \ DOMAIN vD : ~vS[n].required /\ ~vS[n].hasDefault
    /\ \E n \in DOMAIN vS \ DOMAIN vD : vS[n].hasDefault


-----------------------------------------------------------------------------
(* The store and the request handlers.                                      *)

SchemaIds == DOMAIN schemas    \* ids of the rows dynamic_schemas can hold
RequestSchemaIds == {1, 2}     \* ids a request can name; no row ever has id 2
RecordIds == DOMAIN records    \* ids of the rows dynamic_data can hold

Put(m, n, v) == [k \in DOMAIN m \cup {n} |-> IF k = n THEN v ELSE m[k]]
Remove(m, n) == [k \in DOMAIN m \ {n} |-> m[k]]
MergeKeepExisting(a, b) ==
    [k \in DOMAIN a \cup DOMAIN b |-> IF k \in DOMAIN a THEN a[k] ELSE b[k]]

\* merged = a.copy(); merged.update(b)
Merge(a, b) == [k \in DOMAIN a \cup DOMAIN b |-> IF k \in DOMAIN b THEN b[k] ELSE a[k]]

\* rows of dynamic_data and dynamic_schemas; NoRec and NoSchema stand for "no such row"
Rec(sid, data, del) == [exists |-> TRUE, schema_id |-> sid, data |-> data, is_deleted |-> del]
NoRec == [exists |-> FALSE, schema_id |-> 0, data |-> EmptyDoc, is_deleted |-> FALSE]
Row(fields) == [exists |-> TRUE, fields |-> fields]
NoSchema == [exists |-> FALSE, fields |-> EmptyDoc]

\* the lists and counts that the bulk endpoints and migrate-data return
NoBody ==
    [deleted_count |-> 0, not_found |-> <<>>, success |-> <<>>, failed |-> <<>>,
     total |-> 0, migrated |-> 0]
Body(deleted_count, not_found, success, failed) ==
    [NoBody EXCEPT !.deleted_count = deleted_count, !.not_found = not_found,
                   !.success = success, !.failed = failed]
\* results of migrate-data: errors holds the ids of the failed items
MigrateBody(total, migrated, errors) ==
    [NoBody EXCEPT !.total = total, !.migrated = migrated, !.failed = errors]

RespWith(op, status, why, body) == [op |-> op, status |-> status, why |-> why, body |-> body]
Resp(op, status, why) == RespWith(op, status, why, NoBody)

\* crud.get_dynamic_schema returns a row
SchemaExists(sid) == sid \in SchemaIds /\ schemas[sid].exists

get_dynamic_data_unfiltered(rid) ==
    IF rid \in RecordIds THEN records[rid] ELSE NoRec

\* crud.get_dynamic_data(db, data_id): deleted rows are filtered out
get_dynamic_data(rid) ==
    IF rid \in RecordIds /\ records[rid].exists /\ ~records[rid].is_deleted
    THEN records[rid] ELSE NoRec

\* crud.get_dynamic_data(db, data_id, include_deleted=True)
get_dynamic_data_incl(rid) ==
    IF rid \in RecordIds THEN records[rid] ELSE NoRec

\* the default of the limit parameter of crud.get_dynamic_data_by_schema
limit == 100

\* crud.get_dynamic_data_by_schema(db, schema_id, include_deleted=...) with
\* the default skip and limit: the first `limit` matching rows, in id order
get_dynamic_data_by_schema(sid, include_deleted) ==
    LET matching == {r \in RecordIds : /\ records[r].exists
                                       /\ records[r].schema_id = sid
                                       /\ (include_deleted \/ ~records[r].is_deleted)}
    IN IF Cardinality(matching) <= limit THEN matching
       ELSE {r \in matching : Cardinality({q \in matching : q <= r}) <= limit}

\* The response is sent without any write.
Reply(op, status, why) ==
    /\ last' = Resp(op, status, why)
    /\ UNCHANGED <<schemas, mem, records>>

\* The handler mutated the loaded schema object in place and raised or
\* returned without commit: the Session keeps the mutated object.
ReplyDirty(op, status, why, sid, fields) ==
    /\ last' = Resp(op, status, why)
    /\ mem' = [mem EXCEPT ![sid] = Row(fields)]
    /\ UNCHANGED <<schemas, records>>

\* schema.schema_definition = schema_definition; db.commit(): the row is
\* written and every object of the Session is expired (read again on use).
CommitSchema(op, sid, fields) ==
    /\ last' = Resp(op, 200, "")
    /\ schemas' = [schemas EXCEPT ![sid] = Row(fields)]
    /\ mem' = schemas'
    /\ UNCHANGED records

\* db.commit() after a change of dynamic_data rows: every object of the
\* Session is expired, a schema object mutated in place but never assigned
\* is read again from its row.
CommitRecordsWith(op, recs, body) ==
    /\ last' = RespWith(op, 200, "", body)
    /\ records' = recs
    /\ mem' = schemas
    /\ UNCHANGED schemas

CommitRecords(op, recs) == CommitRecordsWith(op, recs, NoBody)

\* POST /dynamic-schemas/
CreateSchema(fields) ==
    /\ UNCHANGED <<validation, search, inflight>>
    /\ IF ~validate_field_definitions(fields)
       THEN Reply("create_schema", 422, "invalid")
       ELSE /\ \E s \in SchemaIds : ~schemas[s].exists
            /\ LET sid == CHOOSE s \in SchemaIds :
                              ~schemas[s].exists /\ \A t \in SchemaIds : t < s => schemas[t].exists
               IN CommitSchema("create_schema", sid, fields)

\* POST /schema-fields/{schema_id}/fields
AddField(sid, wellFormed, n, fd) ==
    /\ UNCHANGED <<validation, search, inflight>>
    /\ IF ~SchemaExists(sid) THEN Reply("add_field", 404, "schema")
       ELSE IF ~wellFormed THEN Reply("add_field", 400, "malformed")
       ELSE IF n \in DOMAIN mem[sid].fields THEN Reply("add_field", 400, "exists")
       ELSE LET m2 == Put(mem[sid].fields, n, fd) IN
            IF ~validate_field_definitions(m2)
            THEN ReplyDirty("add_field", 400, "invalid", sid, m2)
            ELSE CommitSchema("add_field", sid, m2)

\* PUT /schema-fields/{schema_id}/fields/{field_name}
UpdateField(sid, n, fd) ==
    /\ UNCHANGED <<validation, search, inflight>>
    /\ IF ~SchemaExists(sid) THEN Reply("update_field", 404, "schema")
       ELSE IF n \notin DOMAIN mem[sid].fields THEN Reply("update_field", 404, "field")
       ELSE LET m2 == Put(mem[sid].fields, n, fd) IN
            IF ~validate_field_definitions(m2)
            THEN ReplyDirty("update_field", 400, "invalid", sid, m2)
            ELSE CommitSchema("update_field", sid, m2)

\* DELETE /schema-fields/{schema_id}/fields/{field_name}
DeleteField(sid, n) ==
    /\ UNCHANGED <<validation, search, inflight>>
    /\ IF ~SchemaExists(sid) THEN Reply("delete_field", 404, "schema")
       ELSE IF n \notin DOMAIN mem[sid].fields THEN Reply("delete_field", 404, "field")
       ELSE LET m2 == Remove(mem[sid].fields, n) IN
            IF ~validate_field_definitions(m2)
            THEN ReplyDirty("delete_field", 400, "invalid", sid, m2)
            ELSE CommitSchema("delete_field", sid, m2)

\* POST /schema-fields/{schema_id}/fields/validate.  schema_definition.copy()
\* is a shallow copy: its "fields" mapping is the loaded object's own.
ValidateField(sid, wellFormed, n, fd) ==
    /\ UNCHANGED <<validation, search, inflight>>
    /\ IF ~SchemaExists(sid) THEN Reply("validate_field", 404, "schema")
       ELSE IF ~wellFormed THEN Reply("validate_field", 200, "not_valid")
       ELSE LET m2 == Put(mem[sid].fields, n, fd) IN
            IF validate_field_definitions(m2)
            THEN ReplyDirty("validate_field", 200, "valid", sid, m2)
            ELSE ReplyDirty("validate_field", 200, "not_valid", sid, m2)

\* The loop of bulk-add-fields over fields[i..]: the mapping after the loop,
\* or malformed (with the mapping as mutated so far) when an entry lacks
\* 'name' or 'definition'.
RECURSIVE BulkLoop(_, _, _)
BulkLoop(m, entries, i) ==
    IF i > Len(entries) THEN [malformed |-> FALSE, fields |-> m]
    ELSE IF ~entries[i].wellFormed THEN [malformed |-> TRUE, fields |-> m]
    ELSE BulkLoop(Put(m, entries[i].name, entries[i].definition), entries, i + 1)

\* POST /schema-fields/{schema_id}/bulk-add-fields
BulkAddFields(sid, entries) ==
    /\ UNCHANGED <<validation, search, inflight>>
    /\ IF ~SchemaExists(sid) THEN Reply("bulk_add", 404, "schema")
       ELSE LET r == BulkLoop(mem[sid].fields, entries, 1) IN
            IF r.malformed THEN ReplyDirty("bulk_add", 400, "malformed", sid, r.fields)
            ELSE IF ~validate_field_definitions(r.fields)
            THEN ReplyDirty("bulk_add", 400, "invalid", sid, r.fields)
            ELSE CommitSchema("bulk_add", sid, r.fields)

\* get_db teardown: the Session is closed, its loaded objects are dropped
CloseSession ==
    /\ mem # schemas
    /\ mem' = schemas
    /\ UNCHANGED <<schemas, records, last, validation, search, inflight>>

\* The id the table gives a new row
NextRecordId ==
    IF \A r \in RecordIds : ~records[r].exists THEN 1
    ELSE 1 + (CHOOSE r \in RecordIds :
                  records[r].exists /\ \A q \in RecordIds : records[q].exists => q <= r)

\* POST /dynamic-data/ (crud.create_dynamic_data)
CreateData(sid, d) ==
    /\ UNCHANGED <<validation, search, inflight>>
    /\ IF ~SchemaExists(sid) THEN Reply("create", 400, "schema_not_found")
       ELSE IF ~validate_field_definitions(mem[sid].fields)
            THEN Reply("create", 400, "schema_invalid")
       ELSE LET r == validate_data(mem[sid].fields, d) IN
            IF r.outcome = "crash" THEN Reply("create", 500, "model")
            ELSE IF r.outcome = "invalid" THEN Reply("create", 400, "validation")
            ELSE /\ NextRecordId \in RecordIds
                 /\ CommitRecords("create",
                        [records EXCEPT ![NextRecordId] = Rec(sid, r.doc, FALSE)])

\* The body of PATCH and PUT after the record and its schema were found
WriteValidated(op, rid, fields, data) ==
    IF ~validate_field_definitions(fields) THEN Reply(op, 400, "schema_invalid")
    ELSE LET r == validate_data(fields, data) IN
         IF r.outcome = "crash" THEN Reply(op, 500, "model")
         ELSE IF r.outcome = "invalid" THEN Reply(op, 400, "validation")
         ELSE CommitRecords(op, [records EXCEPT ![rid].data = r.doc])

partial_update_dynamic_data_incl_deleted(rid, delta) ==
    /\ UNCHANGED <<validation, search, inflight>>
    /\ LET rec == get_dynamic_data_incl(rid) IN
       IF ~rec.exists THEN Reply("patch", 404, "data")
       ELSE IF ~SchemaExists(rec.schema_id) THEN Reply("patch", 404, "schema")
       ELSE WriteValidated("patch", rid, mem[rec.schema_id].fields, Merge(rec.data, delta))

\* PATCH /dynamic-data/{data_id}/partial
partial_update_dynamic_data(rid, delta) ==
    /\ UNCHANGED <<validation, search, inflight>>
    /\ LET rec == get_dynamic_data(rid) IN
       IF ~rec.exists THEN Reply("patch", 404, "data")
       ELSE IF ~SchemaExists(rec.schema_id) THEN Reply("patch", 404, "schema")
       ELSE WriteValidated("patch", rid, mem[rec.schema_id].fields, Merge(rec.data, delta))

RequiredMissingNever(fields, data) == FALSE

\* the required-field pre-check of PUT
RequiredMissing(fields, data) ==
    \E n \in DOMAIN fields : fields[n].required /\ n \notin DOMAIN data

\* PUT /dynamic-data/{data_id}
update_dynamic_data(rid, data) ==
    /\ UNCHANGED <<validation, search, inflight>>
    /\ LET rec == get_dynamic_data(rid) IN
       IF ~rec.exists THEN Reply("put", 404, "data")
       ELSE IF ~SchemaExists(rec.schema_id) THEN Reply("put", 404, "schema")
       ELSE IF ~validate_field_definitions(mem[rec.schema_id].fields)
            THEN Reply("put", 400, "schema_invalid")
       ELSE IF RequiredMissing(mem[rec.schema_id].fields, data)
            THEN Reply("put", 400, "required_missing")
       ELSE WriteValidated("put", rid, mem[rec.schema_id].fields, data)

\* POST /dynamic-data/{data_id}/validate?partial=...: the checks of PUT
\* (partial false) or PATCH (partial true) without the write.  A ValueError is
\* reported as valid=false; any other exception leaves the handler.
validate_data_update(rid, data, partial) ==
    /\ UNCHANGED <<validation, search, inflight>>
    /\ LET rec == get_dynamic_data(rid) IN
       IF ~rec.exists THEN Reply("validate_data", 404, "data")
       ELSE IF ~SchemaExists(rec.schema_id) THEN Reply("validate_data", 404, "schema")
       ELSE LET fields == mem[rec.schema_id].fields IN
            IF ~validate_field_definitions(fields)
            THEN Reply("validate_data", 200, "not_valid")
            ELSE IF ~partial /\ RequiredMissing(fields, data)
            THEN Reply("validate_data", 200, "not_valid")
            ELSE LET r == validate_data(fields,
                                        IF partial THEN Merge(rec.data, data) ELSE data)
                 IN IF r.outcome = "crash" THEN Reply("validate_data", 500, "model")
                    ELSE IF r.outcome = "invalid"
                         THEN Reply("validate_data", 200, "not_valid")
                    ELSE Reply("validate_data", 200, "valid")

delete_dynamic_data_always_permanent(rid, force) ==
    /\ UNCHANGED <<validation, search, inflight>>
    /\ IF ~get_dynamic_data(rid).exists THEN Reply("delete", 404, "data")
       ELSE CommitRecords("delete", [records EXCEPT ![rid] = NoRec])

\* DELETE /dynamic-data/{data_id}?force=
delete_dynamic_data(rid, force) ==
    /\ UNCHANGED <<validation, search, inflight>>
    /\ IF ~get_dynamic_data(rid).exists THEN Reply("delete", 404, "data")
       ELSE IF force
            THEN CommitRecords("delete", [records EXCEPT ![rid] = NoRec])
            ELSE CommitRecords("delete", [records EXCEPT ![rid].is_deleted = TRUE])

\* POST /dynamic-data/{data_id}/restore (crud.restore_dynamic_data)
restore_dynamic_data(rid) ==
    /\ UNCHANGED <<validation, search, inflight>>
    /\ LET rec == get_dynamic_data_incl(rid) IN
       IF ~rec.exists THEN Reply("restore", 404, "data")
       ELSE IF rec.is_deleted
            THEN CommitRecords("restore", [records EXCEPT ![rid].is_deleted = FALSE])
            ELSE Reply("restore", 200, "not_deleted")

\* The loop of bulk-update over updates[i..]; st holds the rows as assigned
\* so far and the success and failed lists.  An entry that is malformed,
\* names no live record, or fails validation with ValueError goes to failed;
\* an exception that is not a ValueError ends the request.
RECURSIVE BulkUpdateLoop(_, _, _)
BulkUpdateLoop(st, updates, i) ==
    IF i > Len(updates) THEN st
    ELSE LET u == updates[i]
             recs == st.recs
             fail == [st EXCEPT !.failed = Append(@, u.id)]
             live == u.wellFormed /\ u.id \in DOMAIN recs
                     /\ recs[u.id].exists /\ ~recs[u.id].is_deleted
         IN IF ~live THEN BulkUpdateLoop(fail, updates, i + 1)
            ELSE LET fields == mem[recs[u.id].schema_id].fields IN
                 IF ~validate_field_definitions(fields)
                 THEN BulkUpdateLoop(fail, updates, i + 1)
                 ELSE LET r == validate_data(fields, u.data) IN
                      IF r.outcome = "crash" THEN [st EXCEPT !.crashed = TRUE]
                      ELSE IF r.outcome = "invalid"
                           THEN BulkUpdateLoop(fail, updates, i + 1)
                      ELSE BulkUpdateLoop(
                               [st EXCEPT !.recs[u.id].data = r.doc,
                                          !.success = Append(@, u.id)],
                               updates, i + 1)

\* POST /dynamic-data/bulk-update.  When the request ends in an exception the
\* assignments of the earlier entries stay pending in the Session: they are
\* dropped with it or flushed by the next commit.
bulk_update_dynamic_data(updates) ==
    /\ UNCHANGED <<validation, search, inflight>>
    /\ IF Len(updates) = 0 THEN Reply("bulk_update", 400, "empty")
       ELSE LET r == BulkUpdateLoop(
                         [crashed |-> FALSE, recs |-> records,
                          success |-> <<>>, failed |-> <<>>],
                         updates, 1)
            IN IF r.crashed
               THEN /\ last' = Resp("bulk_update", 500, "model")
                    /\ records' \in {records, r.recs}
                    /\ UNCHANGED <<schemas, mem>>
               ELSE CommitRecordsWith("bulk_update", r.recs,
                                      Body(0, <<>>, r.success, r.failed))

\* The loop of bulk-delete over ids[i..]; st holds the rows as marked so far,
\* deleted_count and not_found.  crud.get_dynamic_data queries the table:
\* with autoflush the marks of the earlier ids are flushed first, without it
\* the query still sees the rows as they were when the request started.
RECURSIVE BulkDeleteLoop(_, _, _, _, _)
BulkDeleteLoop(st, ids, force, autoflush, i) ==
    IF i > Len(ids) THEN st
    ELSE LET id == ids[i]
             seen == IF autoflush THEN st.recs ELSE records
             live == id \in DOMAIN seen /\ seen[id].exists /\ ~seen[id].is_deleted
         IN IF ~live
            THEN BulkDeleteLoop([st EXCEPT !.not_found = Append(@, id)],
                                ids, force, autoflush, i + 1)
            ELSE BulkDeleteLoop(
                     [st EXCEPT !.recs[id] = IF force THEN NoRec
                                             ELSE [st.recs[id] EXCEPT !.is_deleted = TRUE],
                                !.deleted_count = @ + 1],
                     ids, force, autoflush, i + 1)

\* POST /dynamic-data/bulk-delete
bulk_delete_dynamic_data(ids, force, autoflush) ==
    /\ UNCHANGED <<validation, search, inflight>>
    /\ IF Len(ids) = 0 THEN Reply("bulk_delete", 400, "empty")
       ELSE LET r == BulkDeleteLoop(
                         [recs |-> records, deleted_count |-> 0, not_found |-> <<>>],
                         ids, force, autoflush, 1)
            IN CommitRecordsWith("bulk_delete", r.recs,
                                 Body(r.deleted_count, r.not_found, <<>>, <<>>))

\* migrated_data of one item: the field mapping, then the default values,
\* then the removals
Migrated(data, cfg) ==
    LET a == IF cfg.from \in DOMAIN data
             THEN (IF cfg.from # cfg.to
                   THEN Remove(Put(data, cfg.to, data[cfg.from]), cfg.from)
                   ELSE data)
             ELSE data
        b == Merge(cfg.defaults, a)
    IN [k \in DOMAIN b \ cfg.remove |-> b[k]]

\* the ids of S in the order the loop meets them
IdsInOrder(S) ==
    LET Member(r) == r \in S
    IN SelectSeq([i \in 1..Cardinality(RecordIds) |-> i], Member)

\* POST /schema-fields/{schema_id}/migrate-data: the records that
\* get_dynamic_data_by_schema returns with include_deleted=True; an item whose
\* validation raises (any exception) is left as it was and listed in errors.
migrate_existing_data(sid, cfg) ==
    /\ UNCHANGED <<validation, search, inflight>>
    /\ IF ~SchemaExists(sid) THEN Reply("migrate", 404, "schema")
       ELSE IF ~validate_field_definitions(mem[sid].fields)
            THEN Reply("migrate", 422, "schema_invalid")
       ELSE LET data_items == get_dynamic_data_by_schema(sid, TRUE)
                Validated(r) == validate_data(mem[sid].fields, Migrated(records[r].data, cfg))
            IN \E failed \in { {r \in data_items : Validated(r).outcome # "ok"} } :
                 CommitRecordsWith("migrate",
                   [r \in RecordIds |->
                       IF r \in data_items \ failed
                       THEN [records[r] EXCEPT !.data = Validated(r).doc]
                       ELSE records[r]],
                   MigrateBody(Cardinality(data_items),
                               Cardinality(data_items) - Cardinality(failed),
                               IdsInOrder(failed)))

-----------------------------------------------------------------------------
(* Schema evolution alone: one schema row, no records.                      *)

MaxBulk == 2

Names == {"f", "g"}
DReqStr     == FieldDef("string",  TRUE,  FALSE, VNull,   Absent,   FALSE)
DOptInt     == FieldDef("integer", FALSE, FALSE, VNull,   Absent,   FALSE)
DReqIntDef  == FieldDef("integer", TRUE,  TRUE,  VInt(1), Absent,   FALSE)
DOptDate    == FieldDef("date",    FALSE, FALSE, VNull,   Absent,   FALSE)
DArrStr     == FieldDef("array",   FALSE, FALSE, VNull,   "string", FALSE)
DArrNoItems == FieldDef("array",   FALSE, FALSE, VNull,   Absent,   FALSE)
DObjNoProps == FieldDef("object",  FALSE, FALSE, VNull,   Absent,   FALSE)
DBadType    == FieldDef("invalid_type", TRUE, FALSE, VNull, Absent, FALSE)
DNoType     == FieldDef(Absent,    FALSE, FALSE, VNull,   Absent,   FALSE)

Entry(wf, n, fd) == [wellFormed |-> wf, name |-> n, definition |-> fd]
SeqsUpTo(S, n) == UNION { [1..k -> S] : k \in 1..n }

SchemaFieldDefs == {DReqStr, DArrStr, DArrNoItems, DObjNoProps, DBadType, DNoType}
SchemaBulkEntries ==
    { Entry(TRUE, "f", DArrStr), Entry(TRUE, "g", DReqStr),
      Entry(TRUE, "g", DArrNoItems), Entry(FALSE, "g", DReqStr) }

InitSchema ==
    /\ schemas = [s \in {1} |-> NoSchema]
    /\ mem = schemas
    /\ records = EmptyDoc
    /\ last = Resp("none", 0, "")
    /\ vS = EmptyDoc /\ vD = EmptyDoc /\ vR = NoResult /\ vR2 = NoResult
    /\ sQ = NoQuery /\ sR = NoFound
    /\ inflight = NoneInFlight

NextSchema ==
    \/ \E fields \in Maps(Names, SchemaFieldDefs) : CreateSchema(fields)
    \/ \E sid \in RequestSchemaIds, wf \in BOOLEAN, n \in Names, fd \in SchemaFieldDefs :
           AddField(sid, wf, n, fd)
    \/ \E sid \in RequestSchemaIds, n \in Names, fd \in SchemaFieldDefs : UpdateField(sid, n, fd)
    \/ \E sid \in RequestSchemaIds, n \in Names : DeleteField(sid, n)
    \/ \E sid \in RequestSchemaIds, wf \in BOOLEAN, n \in Names, fd \in SchemaFieldDefs :
           ValidateField(sid, wf, n, fd)
    \/ \E sid \in RequestSchemaIds, es \in SeqsUpTo(SchemaBulkEntries, MaxBulk) :
           BulkAddFields(sid, es)
    \/ CloseSession

SpecSchema == InitSchema /\ [][NextSchema]_vars

\* C1: after any sequence of schema-create, add-field, update-field,
\* delete-field and bulk-add-fields requests, accepted or rejected, every
\* persisted schema definition passes the SchemaDefinition validator: every
\* field has a type of the closed set, every array field carries items and
\* every object field carries properties.
C1_PersistedSchemaValid ==
    \A s \in DOMAIN schemas : schemas[s].exists =>
        \A n \in DOMAIN schemas[s].fields :
            LET fd == schemas[s].fields[n] IN
            /\ fd.type \in {"string", "number", "integer", "boolean",
                            "array", "object", "date", "datetime"}
            /\ (fd.type = "array" => fd.items # Absent)
            /\ (fd.type = "object" => fd.properties)

\* C1 witness: a bulk-add that carried an array field was accepted and the
\* persisted schema holds that array field.
C1_Witness ==
    /\ last.op = "bulk_add" /\ last.status = 200
    /\ schemas[1].exists
    /\ "f" \in DOMAIN schemas[1].fields
    /\ schemas[1].fields["f"].type = "array"

\* C2: when add-field, update-field or delete-field is rejected because the
\* resulting definition fails the validator, the schema as observed by any
\* later request (the loaded schema object the next handler reads) is exactly
\* what it was before the rejected request.
C2_RejectedNotApplied ==
    [][ ( /\ last' # last
          /\ last'.op \in {"add_field", "update_field", "delete_field"}
          /\ last'.why = "invalid" )
        => mem' = mem ]_vars

-----------------------------------------------------------------------------
(* Schemas and records together.                                            *)

MaxRecords == 1

DataFieldInputs == { <<"f", DReqStr>>, <<"g", DReqIntDef>>, <<"g", DOptDate>> }
DataSchemas ==
    { [n \in {"f"} |-> DReqStr],
      [n \in {"f", "g"} |-> IF n = "f" THEN DReqStr ELSE DReqIntDef],
      [n \in {"f", "g"} |-> IF n = "f" THEN DReqStr ELSE DOptDate] }
DataBulkEntries == { Entry(TRUE, "g", DReqIntDef), Entry(FALSE, "g", DReqIntDef) }
DataBulkLists ==
    { <<e>> : e \in DataBulkEntries } \cup { <<e1, e2>> : e1, e2 \in DataBulkEntries }
Docs == Maps(Names, {VInt(1), VStr("a")})
Update(wf, id, d) == [wellFormed |-> wf, id |-> id, data |-> d]
BulkUpdateLists ==
    { <<>>,
      <<Update(TRUE, 1, [n \in {"f"} |-> VStr("a")])>>,
      <<Update(TRUE, 1, [n \in {"f", "g"} |-> VInt(1)])>>,
      <<Update(FALSE, 1, EmptyDoc)>>,
      <<Update(TRUE, 2, [n \in {"f"} |-> VStr("a")])>>,
      <<Update(TRUE, 1, [n \in {"f", "g"} |-> VInt(1)]),
        Update(TRUE, 1, [n \in {"f"} |-> VStr("a")])>>,
      <<Update(FALSE, 1, EmptyDoc), Update(TRUE, 1, [n \in {"f"} |-> VInt(1)])>> }
BulkDeleteLists == { <<>>, <<1>>, <<2>>, <<1, 1>>, <<2, 1>> }
MigrateConfig(from, to, defaults, remove) ==
    [from |-> from, to |-> to, defaults |-> defaults, remove |-> remove]
MigrateConfigs ==
    { MigrateConfig("f", "g", EmptyDoc, {}),
      MigrateConfig(Absent, Absent, [n \in {"g"} |-> VInt(1)], {"f"}),
      MigrateConfig("g", "f", EmptyDoc, {"g"}) }

Init ==
    /\ schemas = [s \in {1} |-> NoSchema]
    /\ mem = schemas
    /\ records = [r \in 1..MaxRecords |-> NoRec]
    /\ last = Resp("none", 0, "")
    /\ vS = EmptyDoc /\ vD = EmptyDoc /\ vR = NoResult /\ vR2 = NoResult
    /\ sQ = NoQuery /\ sR = NoFound
    /\ inflight = NoneInFlight

Next ==
    \/ \E fields \in DataSchemas : CreateSchema(fields)
    \/ \E sid \in SchemaIds, p \in DataFieldInputs : AddField(sid, TRUE, p[1], p[2])
    \/ \E sid \in SchemaIds, p \in DataFieldInputs : UpdateField(sid, p[1], p[2])
    \/ \E sid \in SchemaIds, n \in Names : DeleteField(sid, n)
    \/ \E sid \in SchemaIds, p \in DataFieldInputs : ValidateField(sid, TRUE, p[1], p[2])
    \/ \E sid \in SchemaIds, es \in DataBulkLists : BulkAddFields(sid, es)
    \/ CloseSession
    \/ \E sid \in RequestSchemaIds, d \in Docs : CreateData(sid, d)
    \/ \E rid \in RecordIds, d \in Docs : partial_update_dynamic_data(rid, d)
    \/ \E rid \in RecordIds, d \in Docs : update_dynamic_data(rid, d)
    \/ \E rid \in RecordIds, force \in BOOLEAN : delete_dynamic_data(rid, force)
    \/ \E rid \in RecordIds : restore_dynamic_data(rid)
    \/ \E us \in BulkUpdateLists : bulk_update_dynamic_data(us)
    \/ \E ids \in BulkDeleteLists, force \in BOOLEAN, autoflush \in BOOLEAN :
           bulk_delete_dynamic_data(ids, force, autoflush)
    \/ \E sid \in RequestSchemaIds, cfg \in MigrateConfigs : migrate_existing_data(sid, cfg)

Spec == Init /\ [][Next]_vars

\* C3: after any successful write to a record (create, PUT, PATCH, a
\* bulk-update entry, a migrate-data entry) the record's stored data has no
\* key that is not a declared field of its schema as persisted at the moment
\* of the write.
C3_NoUndeclaredKeyStored ==
    [][ \A r \in DOMAIN records :
            ( /\ records'[r].exists
              /\ (~records[r].exists \/ records'[r].data # records[r].data) )
            => DOMAIN records'[r].data
                   \subseteq DOMAIN schemas[records'[r].schema_id].fields ]_vars

\* C4: for every schema S and document D in which a required field of S
\* without default is absent, create fails with a client error and the
\* record store is unchanged.
C4_CreateRejectsMissingRequired ==
    [][ \A sid \in SchemaIds, d \in Docs :
            ( /\ CreateData(sid, d)
              /\ schemas[sid].exists
              /\ \E n \in DOMAIN mem[sid].fields :
                     /\ mem[sid].fields[n].required
                     /\ ~mem[sid].fields[n].hasDefault
                     /\ n \notin DOMAIN d )
            => (last'.status \in 400..499 /\ records' = records) ]_vars

\* C7: PATCH is a left-biased merge: when PATCH of a live record with stored
\* data E succeeds, the stored data afterwards has the delta's value on every
\* key of the delta and E's value on every key of E absent from the delta.
C7_PatchLeftBiasedMerge ==
    [][ \A rid \in DOMAIN records, delta \in Docs :
            ( /\ last'.op = "patch" /\ last'.status = 200
              /\ partial_update_dynamic_data(rid, delta) )
            => LET E == records[rid].data
                   after == records'[rid].data
               IN /\ \A k \in DOMAIN delta :
                         k \in DOMAIN after /\ after[k] = delta[k]
                  /\ \A k \in DOMAIN E \ DOMAIN delta :
                         k \in DOMAIN after /\ after[k] = E[k] ]_vars

\* C7 as amended: when PATCH of a live record with stored data E succeeds,
\* the stored data afterwards holds exactly the declared fields of the schema
\* PATCH read; a declared key of the delta holds the validator's value for
\* the delta's value, every other declared key the validator's value for E
\* (E's value coerced, else the default, else null); undeclared keys of the
\* delta and of E are dropped.
C7_PatchMergesThenValidates ==
    [][ \A rid \in DOMAIN records, delta \in Docs :
            ( /\ last'.op = "patch" /\ last'.status = 200
              /\ partial_update_dynamic_data(rid, delta) )
            => LET E == records[rid].data
                   S == mem[records[rid].schema_id].fields
                   after == records'[rid].data
               IN /\ DOMAIN after = DOMAIN S
                  /\ \A k \in DOMAIN S :
                         after[k] = IF k \in DOMAIN delta
                                    THEN FieldResult(S[k], delta, k).v
                                    ELSE FieldResult(S[k], E, k).v ]_vars

\* C7 witness: a PATCH succeeded on a record whose stored value of f was
\* coerced to text.
C7_Witness ==
    /\ last.op = "patch" /\ last.status = 200
    /\ records[1].exists
    /\ "f" \in DOMAIN records[1].data
    /\ records[1].data["f"] = VStr("1")

-----------------------------------------------------------------------------
(* Search: POST /dynamic-data/search.                                       *)

\* a criteria key that the request does not carry
VAbsent == Val("absent", 0, "")

\* the JSON object {key: n}
VObj(key, n) == Val("obj", n, key)

\* the text of data[field_path], a JSON value: strings keep their quotes,
\* true and false are extracted as 1 and 0, an object as its JSON text
JsonText(v) ==
    CASE v.k = "str" -> "\"" \o v.s \o "\""
      [] v.k \in {"int", "float", "bool"} -> NumeralOf(v.i)
      [] v.k = "obj" -> "{\"" \o v.s \o "\":" \o NumeralOf(v.i) \o "}"

\* cast(json_field, Integer), cast(json_field, Float) and
\* cast(json_field, Boolean): the number, or 0 for a text that does not
\* start with digits
CastNumber(v) == IF v.k \in {"int", "float", "bool"} THEN v.i ELSE 0

\* isinstance(value, int): bool is a subclass of int
IsInstanceInt(v) == v.k \in {"int", "bool"}

\* the cast chosen for the runtime type of value: the tests run in the
\* order int, float, bool, anything else
value_cast(v) ==
    IF IsInstanceInt(v) THEN "integer"
    ELSE IF v.k = "float" THEN "float"
    ELSE IF v.k = "bool" THEN "boolean"
    ELSE "string"

CompareNumber(op, a, b) ==
    CASE op = "eq" -> a = b
      [] op = "ne" -> a # b
      [] op = "gt" -> a > b
      [] op = "gte" -> a >= b
      [] op = "lt" -> a < b
      [] op = "lte" -> a <= b

\* equality of texts; the ordering and pattern operators on text are not
\* among the requests explored
CompareText(op, a, b) ==
    CASE op = "eq" -> a = b
      [] op = "ne" -> a # b

Operators == {"eq", "ne", "gt", "gte", "lt", "lte", "contains", "startswith", "endswith"}

\* all(k in criteria for k in ["field_path", "operator", "value"])
Complete(c) == c.field # Absent /\ c.op # Absent /\ c.value # VAbsent

LeafMatchesUnknownOperatorFails(doc, c) ==
    IF c.op \notin Operators THEN FALSE
    ELSE IF c.field \notin DOMAIN doc \/ doc[c.field] = VNull THEN FALSE
    ELSE IF value_cast(c.value) \in {"integer", "float", "boolean"}
         THEN CompareNumber(c.op, CastNumber(doc[c.field]), c.value.i)
         ELSE CompareText(c.op, JsonText(doc[c.field]), c.value.s)

\* The filter of a single condition on one row.  data[field_path] looks up
\* the whole field_path as one key; a missing key or a JSON null is NULL and
\* passes no comparison; an operator outside the list adds no filter.
LeafMatches(doc, c) ==
    IF c.op \notin Operators THEN TRUE
    ELSE IF c.field \notin DOMAIN doc \/ doc[c.field] = VNull THEN FALSE
    ELSE IF value_cast(c.value) \in {"integer", "float", "boolean"}
         THEN CompareNumber(c.op, CastNumber(doc[c.field]), c.value.i)
         ELSE CompareText(c.op, JsonText(doc[c.field]), c.value.s)

RECURSIVE apply_search_criteria(_, _)
RECURSIVE AndLoop(_, _, _)

\* for sub_criteria in criteria["and"]: query = apply_search_criteria(query, sub_criteria)
AndLoop(q, kids, i) ==
    IF i > Len(kids) \/ q.error THEN q
    ELSE AndLoop(apply_search_criteria(q, kids[i]), kids, i + 1)

\* apply_search_criteria(query, criteria); a query is the set of ids it
\* selects, or the error that ended the request.  The "or" branch reads the
\* name db, which the function does not have.
apply_search_criteria(q, c) ==
    IF c.kind = "and" THEN AndLoop(q, c.kids, 1)
    ELSE IF c.kind = "or"
         THEN (IF Len(c.kids) = 0 THEN q ELSE [error |-> TRUE, ids |-> {}])
    ELSE IF ~Complete(c) THEN q
    ELSE [error |-> FALSE,
          ids |-> {r \in q.ids : LeafMatches(records[r].data, c)}]

\* search_dynamic_data(search_criteria, schema_id) with the default skip and limit
search_dynamic_data(sid, c) ==
    apply_search_criteria(
        [error |-> FALSE,
         ids |-> {r \in RecordIds : records[r].exists
                                    /\ (sid # 0 => records[r].schema_id = sid)}],
        c)

Search(sid, c) ==
    /\ ~sQ.asked
    /\ sQ' = [asked |-> TRUE, endpoint |-> "search", schema_id |-> sid, criteria |-> c]
    /\ sR' = search_dynamic_data(sid, c)
    /\ UNCHANGED <<schemas, mem, records, last, validation, inflight>>

\* advanced_search_dynamic_data(search_params) without sort, pagination and
\* fields: the schema_id filter is applied whenever the key is present
advanced_search_dynamic_data(hasSid, sid, c) ==
    apply_search_criteria(
        [error |-> FALSE,
         ids |-> {r \in RecordIds : records[r].exists
                                    /\ (hasSid => records[r].schema_id = sid)}],
        c)

AdvancedSearch(hasSid, sid, c) ==
    /\ ~sQ.asked
    /\ sQ' = [asked |-> TRUE, endpoint |-> "advanced-search",
              schema_id |-> IF hasSid THEN sid ELSE 0, criteria |-> c]
    /\ sR' = advanced_search_dynamic_data(hasSid, sid, c)
    /\ UNCHANGED <<schemas, mem, records, last, validation, inflight>>

\* get_all_dynamic_data(schema_id) with the default skip and limit
get_all_dynamic_data(sid) ==
    IF sid # 0 THEN get_dynamic_data_by_schema(sid, FALSE)
    ELSE {r \in RecordIds : records[r].exists}

ListAll(sid) ==
    /\ ~sQ.asked
    /\ sQ' = [asked |-> TRUE, endpoint |-> "list", schema_id |-> sid,
              criteria |-> AndNode(<<>>)]
    /\ sR' = [error |-> FALSE, ids |-> get_all_dynamic_data(sid)]
    /\ UNCHANGED <<schemas, mem, records, last, validation, inflight>>

MaxCorpus == 2

SearchSchema ==
    [n \in {"f", "g", "a"} |->
        CASE n = "f" -> DOptInt
          [] n = "g" -> FieldDef("string", FALSE, FALSE, VNull, Absent, FALSE)
          [] n = "a" -> FieldDef("object", FALSE, FALSE, VNull, Absent, TRUE)]
SearchDoc(f, g, a) == [n \in {"f", "g", "a"} |-> CASE n = "f" -> f [] n = "g" -> g [] n = "a" -> a]
SearchDocs ==
    { SearchDoc(VInt(1), VStr("a"), VNull),
      SearchDoc(VInt(2), VStr("a"), VNull),
      SearchDoc(VInt(1), VNull, VNull),
      SearchDoc(VNull, VNull, VObj("b", 1)) }
Leaves == { Leaf("f", "eq", VInt(1)), Leaf("f", "gt", VInt(1)), Leaf("g", "ne", VStr("a")) }
\* nodes that are neither composites nor complete leaves with a listed operator
OddLeaves ==
    { Leaf("f", "like", VInt(1)), Leaf(Absent, "eq", VInt(1)), Leaf("f", Absent, VInt(1)),
      Leaf("f", "eq", VAbsent), Leaf(Absent, Absent, VAbsent) }
TypedLeaves == { Leaf("f", "eq", VTrue), Leaf("a.b", "eq", VInt(1)), Leaf("g", "eq", VStr("a")) }
Composites(S) == { AndNode(<<a, b>>) : a \in S, b \in S } \cup { OrNode(<<a, b>>) : a \in S, b \in S }
Nested ==
    LET inner == Composites({Leaf("f", "eq", VInt(1))})
    IN { AndNode(<<a, c>>) : a \in Leaves, c \in inner }
       \cup { OrNode(<<c, a>>) : a \in Leaves, c \in inner }
       \cup { AndNode(<<o, Leaf("f", "gt", VInt(1))>>) : o \in OddLeaves }
Criteria == Leaves \cup OddLeaves \cup TypedLeaves \cup Composites(Leaves) \cup Nested

InitSearch ==
    /\ schemas = [s \in {1} |-> Row(SearchSchema)]
    /\ mem = schemas
    /\ \E k \in 1..MaxCorpus :
           records \in [1..k -> { Rec(1, d, del) : d \in SearchDocs, del \in BOOLEAN }]
    /\ last = Resp("none", 0, "")
    /\ vS = EmptyDoc /\ vD = EmptyDoc /\ vR = NoResult /\ vR2 = NoResult
    /\ sQ = NoQuery /\ sR = NoFound
    /\ inflight = NoneInFlight

NextSearch ==
    \/ \E sid \in {0, 1}, c \in Criteria : Search(sid, c)
    \/ \E hasSid \in BOOLEAN, c \in Criteria : AdvancedSearch(hasSid, 1, c)
    \/ \E sid \in {0, 1} : ListAll(sid)

SpecSearch == InitSearch /\ [][NextSearch]_vars

\* C9: for every criteria node {"and": [A, B]}, A and B leaves or nested
\* and/or composites, search returns exactly the intersection of the records
\* it returns for A alone and for B alone over the same corpus.
C9_AndIsIntersection ==
    (sQ.asked /\ sQ.endpoint = "search" /\ sQ.criteria.kind = "and") =>
        LET a == search_dynamic_data(sQ.schema_id, sQ.criteria.kids[1])
            b == search_dynamic_data(sQ.schema_id, sQ.criteria.kids[2])
        IN /\ ~sR.error /\ ~a.error /\ ~b.error
           /\ sR.ids = a.ids \cap b.ids

\* C10: for every criteria node {"or": [A, B]} search completes without
\* error and returns exactly the union of the records it returns for A alone
\* and for B alone over the same corpus and schema_id filter.
C10_OrIsUnion ==
    (sQ.asked /\ sQ.endpoint = "search" /\ sQ.criteria.kind = "or") =>
        LET a == search_dynamic_data(sQ.schema_id, sQ.criteria.kids[1])
            b == search_dynamic_data(sQ.schema_id, sQ.criteria.kids[2])
        IN /\ ~sR.error /\ ~a.error /\ ~b.error
           /\ sR.ids = a.ids \cup b.ids

\* C11: a node that is neither an and/or composite nor a complete leaf, or
\* a leaf whose operator is not one of the nine listed, is a no-op: search
\* returns the records it returns with no criteria, and never an error.
C11_OddLeafIsNoOp ==
    ( /\ sQ.asked /\ sQ.endpoint = "search" /\ sQ.criteria.kind = "leaf"
      /\ \/ sQ.criteria.field = Absent
         \/ sQ.criteria.op = Absent
         \/ sQ.criteria.value = VAbsent
         \/ sQ.criteria.op \notin {"eq", "ne", "gt", "gte", "lt", "lte",
                                   "contains", "startswith", "endswith"} )
    => /\ ~sR.error
       /\ sR.ids = {r \in DOMAIN records :
                       /\ records[r].exists
                       /\ (sQ.schema_id # 0 => records[r].schema_id = sQ.schema_id)}

\* C11 witness: a leaf with an operator outside the list was searched over a
\* corpus in which a record does not satisfy the leaf read with "eq".
C11_Witness ==
    /\ sQ.asked /\ sQ.endpoint = "search"
    /\ sQ.criteria = Leaf("f", "like", VInt(1))
    /\ \E r \in DOMAIN records : records[r].data["f"] # VInt(1)
    /\ sR.ids = DOMAIN records

\* C12: leaf comparison is dispatched on the runtime type of value: an
\* integer or float value is compared numerically, a boolean value as a
\* boolean, any other value as a string; a boolean value never takes the
\* integer comparison path.
C12_CastByValueType ==
    ( /\ sQ.asked /\ sQ.endpoint = "search" /\ sQ.criteria.kind = "leaf"
      /\ sQ.criteria.field # Absent /\ sQ.criteria.op # Absent
      /\ sQ.criteria.value # VAbsent )
    => value_cast(sQ.criteria.value) =
           CASE sQ.criteria.value.k = "int" -> "integer"
             [] sQ.criteria.value.k = "float" -> "float"
             [] sQ.criteria.value.k = "bool" -> "boolean"
             [] OTHER -> "string"

\* C13: a leaf whose field_path is dotted ("a.b") addresses the key b inside
\* the object stored at key a: a record whose data is {a: {b: v}} matches
\* {field_path: "a.b", operator: "eq", value: v}.
C13_DottedPathIsNested ==
    ( /\ sQ.asked /\ sQ.endpoint = "search"
      /\ sQ.criteria = Leaf("a.b", "eq", VInt(1)) )
    => \A r \in DOMAIN records :
           ( /\ records[r].data["a"] = VObj("b", 1)
             /\ (sQ.schema_id # 0 => records[r].schema_id = sQ.schema_id) )
           => r \in sR.ids

\* C16: the list endpoint called without a schema_id filter, search and
\* advanced-search never return a record whose is_deleted is true.
C16_DeletedNotListed ==
    ( /\ sQ.asked
      /\ \/ sQ.endpoint \in {"search", "advanced-search"}
         \/ sQ.endpoint = "list" /\ sQ.schema_id = 0 )
    => \A r \in sR.ids : ~records[r].is_deleted

\* C14: soft-delete followed by restore is a round trip: the soft delete
\* of a live record changes nothing but is_deleted and hides the record from
\* default get-by-id and list-by-schema; the restore of a soft-deleted record
\* changes nothing but is_deleted, so id, schema_id and data are those before
\* the delete, and the record is returned by both reads again.
C14_DeleteRestoreRoundTrip ==
    [][ \A rid \in DOMAIN records :
          /\ ( last'.op = "delete" /\ get_dynamic_data(rid).exists /\ delete_dynamic_data(rid, FALSE) )
             => /\ records' = [records EXCEPT ![rid].is_deleted = TRUE]
                /\ ~(get_dynamic_data(rid).exists)'
                /\ (rid \notin get_dynamic_data_by_schema(records[rid].schema_id, FALSE))'
          /\ ( /\ last'.op = "restore"
               /\ records[rid].exists /\ records[rid].is_deleted
               /\ restore_dynamic_data(rid) )
             => /\ records' = [records EXCEPT ![rid].is_deleted = FALSE]
                /\ (get_dynamic_data(rid) = records[rid])'
                /\ (rid \in get_dynamic_data_by_schema(records[rid].schema_id, FALSE))'
      ]_vars

\* C14 witness: a record with data was soft-deleted and then restored.
C14_Witness ==
    /\ last.op = "restore" /\ last.status = 200 /\ last.why = ""
    /\ records[1].exists /\ ~records[1].is_deleted
    /\ DOMAIN records[1].data # {}

\* C15: in every reachable state a record whose is_deleted is true is
\* returned by neither get-by-id nor list-by-schema called without the
\* include-deleted flag and by both called with it; a soft delete never
\* removes the record physically.
C15_DeletedHiddenButKept ==
    /\ [] ( \A r \in DOMAIN records :
              (records[r].exists /\ records[r].is_deleted) =>
                  /\ ~get_dynamic_data(r).exists
                  /\ r \notin get_dynamic_data_by_schema(records[r].schema_id, FALSE)
                  /\ get_dynamic_data_incl(r) = records[r]
                  /\ r \in get_dynamic_data_by_schema(records[r].schema_id, TRUE) )
    /\ [][ \A rid \in DOMAIN records :
              ( last'.op = "delete" /\ last'.status = 200 /\ delete_dynamic_data(rid, FALSE) )
              => records'[rid].exists /\ records'[rid].is_deleted ]_vars

\* C15 witness: a soft-deleted record is in the store.
C15_Witness ==
    /\ last.op = "delete" /\ last.status = 200
    /\ records[1].exists /\ records[1].is_deleted

\* C17: restore applied to an existing record whose is_deleted is false is
\* rejected with the not-found-or-not-deleted error and leaves the record
\* unchanged.
C17_RestoreOnlyDeleted ==
    [][ \A rid \in DOMAIN records :
            ( /\ last'.op = "restore"
              /\ records[rid].exists /\ ~records[rid].is_deleted
              /\ restore_dynamic_data(rid) )
            => (last'.status = 404 /\ records' = records) ]_vars

Range(q) == { q[i] : i \in DOMAIN q }
Live(recs, r) == r \in DOMAIN recs /\ recs[r].exists /\ ~recs[r].is_deleted

\* C18: bulk-delete with a non-empty id list (duplicates allowed) reports in
\* not_found exactly the listed ids that had no non-deleted record when the
\* request started, deleted_count is the number of distinct records it
\* deleted, each of those is marked deleted (soft) or removed (force), and
\* every other record is unchanged.
C18_BulkDeleteCounts ==
    [][ \A ids \in BulkDeleteLists, force \in BOOLEAN, autoflush \in BOOLEAN :
          ( /\ last'.op = "bulk_delete" /\ Len(ids) > 0
            /\ bulk_delete_dynamic_data(ids, force, autoflush) )
          => LET gone == { r \in Range(ids) : Live(records, r) } IN
             /\ last'.status = 200
             /\ Range(last'.body.not_found) = Range(ids) \ gone
             /\ last'.body.deleted_count = Cardinality(gone)
             /\ \A r \in gone :
                   records'[r] = IF force THEN NoRec
                                 ELSE [records[r] EXCEPT !.is_deleted = TRUE]
             /\ \A r \in DOMAIN records \ gone : records'[r] = records[r]
      ]_vars

\* the entry us[i] names a live record and its data passes validation
EntryValid(us, i) ==
    /\ us[i].wellFormed
    /\ Live(records, us[i].id)
    /\ validate_field_definitions(mem[records[us[i].id].schema_id].fields)
    /\ validate_data(mem[records[us[i].id].schema_id].fields, us[i].data).outcome = "ok"

\* C19: bulk-update applies its entries independently: the request succeeds,
\* every entry is in exactly one of success and failed, a valid entry is in
\* success whatever the other entries are and its record's data is the
\* validated data (of the last such entry for that record), and a record
\* with no valid entry is unchanged.
C19_BulkUpdateIndependent ==
    [][ \A us \in BulkUpdateLists :
          ( /\ last'.op = "bulk_update" /\ Len(us) > 0
            /\ bulk_update_dynamic_data(us) )
          => /\ last'.status = 200
             /\ Len(last'.body.success) + Len(last'.body.failed) = Len(us)
             /\ \A i \in DOMAIN us :
                   IF EntryValid(us, i)
                   THEN /\ us[i].id \in Range(last'.body.success)
                        /\ (\A j \in DOMAIN us : (j > i) => ~EntryValid(us, j))
                           => records'[us[i].id].data =
                                validate_data(mem[records[us[i].id].schema_id].fields,
                                              us[i].data).doc
                   ELSE us[i].id \in Range(last'.body.failed)
             /\ \A r \in DOMAIN records :
                   (\A i \in DOMAIN us : us[i].id = r => ~EntryValid(us, i))
                   => records'[r] = records[r]
      ]_vars

\* C20: add-field is rejected when the field name already exists in the
\* schema, update-field and delete-field are rejected as not-found when the
\* field name does not exist in it, and in each such case the schema's field
\* set and definitions are unchanged.
C20_FieldExistencePreconditions ==
    [][ \A sid \in DOMAIN schemas, n \in Names, fd \in SchemaFieldDefs :
          schemas[sid].exists =>
          /\ ( /\ last'.op = "add_field" /\ n \in DOMAIN schemas[sid].fields
               /\ AddField(sid, TRUE, n, fd) )
             => (last'.status \in 400..499 /\ schemas' = schemas)
          /\ ( /\ last'.op = "update_field" /\ n \notin DOMAIN schemas[sid].fields
               /\ UpdateField(sid, n, fd) )
             => (last'.status = 404 /\ schemas' = schemas)
          /\ ( /\ last'.op = "delete_field" /\ n \notin DOMAIN schemas[sid].fields
               /\ DeleteField(sid, n) )
             => (last'.status = 404 /\ schemas' = schemas)
      ]_vars

\* C21: bulk-add-fields is atomic: when an entry is malformed or the
\* resulting definition is invalid the request is rejected and the schema, as
\* stored and as the next request reads it, is what it was before; otherwise
\* the request is accepted and every entry is a field of the schema.
C21_BulkAddAtomic ==
    [][ \A sid \in DOMAIN schemas, es \in SeqsUpTo(SchemaBulkEntries, MaxBulk) :
          ( /\ last'.op = "bulk_add" /\ SchemaExists(sid)
            /\ BulkAddFields(sid, es) )
          => IF \/ \E i \in DOMAIN es : ~es[i].wellFormed
                \/ ~validate_field_definitions(BulkLoop(mem[sid].fields, es, 1).fields)
             THEN /\ last'.status \in 400..499
                  /\ schemas' = schemas
                  /\ mem' = mem
             ELSE /\ last'.status = 200
                  /\ \A i \in DOMAIN es :
                        /\ es[i].name \in DOMAIN schemas'[sid].fields
                        /\ es[i].name \in DOMAIN mem'[sid].fields
      ]_vars

\* C27: the field validate-only endpoint does not add the field: whatever it
\* answers, the schema as stored and as a later request of the same Session
\* reads it is what it was before the call.
C27_ValidateFieldLeavesSchema ==
    [][ \A sid \in DOMAIN schemas, wf \in BOOLEAN, n \in Names, fd \in SchemaFieldDefs :
          ( /\ last'.op = "validate_field" /\ SchemaExists(sid)
            /\ ValidateField(sid, wf, n, fd) )
          => (schemas' = schemas /\ mem' = mem)
      ]_vars

\* C28: for an existing schema and a payload {name, definition}, the field
\* validate-only endpoint answers valid=true exactly when add-field with the
\* same payload in the same state would be accepted.
C28_ValidateAgreesWithAdd ==
    [][ \A sid \in DOMAIN schemas, wf \in BOOLEAN, n \in Names, fd \in SchemaFieldDefs :
          ( /\ last'.op = "validate_field" /\ SchemaExists(sid)
            /\ ValidateField(sid, wf, n, fd) )
          => ( (last'.why = "valid")
               <=> ENABLED (AddField(sid, wf, n, fd) /\ last'.status = 200) )
      ]_vars

\* C30: bulk-add-fields never overwrites: a field the schema had before the
\* request has the same definition after it, accepted or rejected.
C30_BulkAddKeepsExisting ==
    [][ \A sid \in DOMAIN schemas, es \in SeqsUpTo(SchemaBulkEntries, MaxBulk) :
          ( /\ last'.op = "bulk_add" /\ SchemaExists(sid)
            /\ BulkAddFields(sid, es) )
          => \A n \in DOMAIN schemas[sid].fields :
                /\ n \in DOMAIN schemas'[sid].fields
                /\ schemas'[sid].fields[n] = schemas[sid].fields[n]
      ]_vars

\* C24: a missing entity is reported as not-found (404), not as a validation
\* failure (400), on the record write paths: creating a record whose
\* schema_id names no stored schema answers 404 and stores nothing.
C24_CreateMissingSchemaNotFound ==
    [][ \A sid \in RequestSchemaIds, d \in Docs :
          ( /\ last'.op = "create"
            /\ ~(sid \in DOMAIN schemas /\ schemas[sid].exists)
            /\ CreateData(sid, d) )
          => (last'.status = 404 /\ records' = records)
      ]_vars

\* C29: PUT, PATCH, a bulk-update entry, single delete (forced or not) and a
\* bulk-delete entry addressed to a soft-deleted record report it as not
\* found, and no request other than restore and migrate-data changes a
\* soft-deleted record.
C29_SoftDeletedFrozen ==
    [][ \A r \in DOMAIN records :
          ( records[r].exists /\ records[r].is_deleted ) =>
          /\ last'.op \notin {"restore", "migrate"} => records'[r] = records[r]
          /\ \A d \in Docs :
                /\ ( last'.op = "put" /\ update_dynamic_data(r, d) ) => last'.status = 404
                /\ ( last'.op = "patch" /\ partial_update_dynamic_data(r, d) )
                   => last'.status = 404
          /\ \A force \in BOOLEAN :
                ( last'.op = "delete" /\ delete_dynamic_data(r, force) ) => last'.status = 404
          /\ \A ids \in BulkDeleteLists, force \in BOOLEAN, autoflush \in BOOLEAN :
                ( /\ last'.op = "bulk_delete" /\ r \in Range(ids)
                  /\ bulk_delete_dynamic_data(ids, force, autoflush) )
                => r \in Range(last'.body.not_found)
          /\ \A us \in BulkUpdateLists :
                ( /\ last'.op = "bulk_update" /\ last'.status = 200
                  /\ \E i \in DOMAIN us : us[i].id = r
                  /\ bulk_update_dynamic_data(us) )
                => ( r \in Range(last'.body.failed)
                     /\ r \notin Range(last'.body.success) )
      ]_vars

\* C29 witness: a PATCH addressed to a soft-deleted record was answered 404.
C29_Witness ==
    /\ last.op = "patch" /\ last.status = 404 /\ last.why = "data"
    /\ records[1].exists /\ records[1].is_deleted

-----------------------------------------------------------------------------
(* The validate-only endpoint of a record beside the writes it rehearses.  *)

NextDryRun ==
    \/ \E fields \in DataSchemas : CreateSchema(fields)
    \/ \E sid \in SchemaIds, p \in DataFieldInputs : AddField(sid, TRUE, p[1], p[2])
    \/ \E sid \in RequestSchemaIds, d \in Docs : CreateData(sid, d)
    \/ \E rid \in RecordIds : delete_dynamic_data(rid, FALSE)
    \/ \E rid \in RecordIds, d \in Docs : partial_update_dynamic_data(rid, d)
    \/ \E rid \in RecordIds, d \in Docs : update_dynamic_data(rid, d)
    \/ \E rid \in RecordIds, d \in Docs, partial \in BOOLEAN :
           validate_data_update(rid, d, partial)

SpecDryRun == Init /\ [][NextDryRun]_vars

\* C26: for an existing non-deleted record and any payload, the validate-only
\* endpoint answers 200 with valid=true exactly when PUT (partial false) or
\* PATCH (partial true) with that payload in that state would succeed, with
\* valid=false otherwise, and leaves the stored record unchanged.
C26_DryRunAgreesWithUpdate ==
    [][ \A rid \in DOMAIN records, d \in Docs, partial \in BOOLEAN :
          ( /\ last'.op = "validate_data" /\ get_dynamic_data(rid).exists
            /\ validate_data_update(rid, d, partial) )
          => /\ last'.status = 200
             /\ last'.why \in {"valid", "not_valid"}
             /\ (last'.why = "valid")
                <=> IF partial
                    THEN ENABLED (partial_update_dynamic_data(rid, d) /\ last'.status = 200)
                    ELSE ENABLED (update_dynamic_data(rid, d) /\ last'.status = 200)
             /\ records' = records
      ]_vars

-----------------------------------------------------------------------------
(* migrate-data over a table that holds about as many records of the       *)
(* schema as one page of get_dynamic_data_by_schema.                        *)

MaxStored == limit + 1

StoredSchema == [n \in {"f", "g"} |-> IF n = "f" THEN DReqStr ELSE DOptInt]
StoredDoc == [n \in {"f", "g"} |-> IF n = "f" THEN VStr("a") ELSE VInt(1)]
StoredConfigs ==
    { MigrateConfig(Absent, Absent, EmptyDoc, {"g"}),
      MigrateConfig(Absent, Absent, EmptyDoc, {"f"}),
      MigrateConfig("g", "f", EmptyDoc, {}) }

\* the tables after schema 1 was created and limit - 1 records were created
\* under it
InitMigrate ==
    /\ schemas = [s \in {1} |-> Row(StoredSchema)]
    /\ mem = schemas
    /\ records = [r \in 1..MaxStored |->
                     IF r < limit THEN Rec(1, StoredDoc, FALSE) ELSE NoRec]
    /\ last = Resp("none", 0, "")
    /\ vS = EmptyDoc /\ vD = EmptyDoc /\ vR = NoResult /\ vR2 = NoResult
    /\ sQ = NoQuery /\ sR = NoFound
    /\ inflight = NoneInFlight

NextMigrate ==
    \/ CreateData(1, StoredDoc)
    \/ delete_dynamic_data(1, FALSE)
    \/ restore_dynamic_data(1)
    \/ \E cfg \in StoredConfigs : migrate_existing_data(1, cfg)

SpecMigrate == InitMigrate /\ [][NextMigrate]_vars

\* the stored records of schema sid, deleted ones included
StoredUnder(sid) == { r \in DOMAIN records : records[r].exists /\ records[r].schema_id = sid }

\* C22: migrate-data is applied to every stored record of the schema,
\* soft-deleted ones included, however many there are: total is the number of
\* stored records of the schema and each of them is counted as migrated or
\* listed in errors.
C22_MigrateCoversEveryRecord ==
    [][ \A cfg \in StoredConfigs :
          ( last'.op = "migrate" /\ migrate_existing_data(1, cfg) )
          => /\ last'.status = 200
             /\ last'.body.total = Cardinality(StoredUnder(1))
             /\ last'.body.migrated + Len(last'.body.failed) = Cardinality(StoredUnder(1))
             /\ Range(last'.body.failed) \subseteq StoredUnder(1)
      ]_vars

\* C23: in migrate-data each record is migrated independently: a record whose
\* transformed document fails validation is listed once in errors and keeps
\* its stored data, every other record of the schema holds its validated
\* transformed document afterwards, and total = migrated + failed.
C23_MigrateIndependent ==
    [][ \A cfg \in StoredConfigs :
          ( last'.op = "migrate" /\ migrate_existing_data(1, cfg) )
          => /\ last'.status = 200
             /\ last'.body.total = last'.body.migrated + Len(last'.body.failed)
             /\ \A r \in StoredUnder(1) :
                   LET v == validate_data(mem[1].fields, Migrated(records[r].data, cfg))
                       listed == { i \in DOMAIN last'.body.failed : last'.body.failed[i] = r }
                   IN IF v.outcome = "ok"
                      THEN /\ listed = {}
                           /\ records'[r] = [records[r] EXCEPT !.data = v.doc]
                      ELSE /\ Cardinality(listed) = 1
                           /\ records'[r] = records[r]
      ]_vars

-----------------------------------------------------------------------------
(* PATCH in steps: two writers, each request with a Session of its own.    *)
(* The handler holds no lock and the row carries no version, so the steps  *)
(* of two requests interleave freely.                                       *)

\* partial_update_dynamic_data up to validate_data: the request loads the
\* record and its schema, merges the delta over the loaded data and validates
PatchRead(w, rid, delta) ==
    /\ inflight[w].pc = "idle"
    /\ UNCHANGED <<schemas, mem, records, validation, search>>
    /\ LET rec == get_dynamic_data(rid)
           req == [Idle EXCEPT !.rid = rid, !.delta = delta]
       IN IF ~rec.exists
          THEN /\ inflight' = [inflight EXCEPT ![w] = [req EXCEPT !.pc = "done"]]
               /\ last' = Resp("patch", 404, "data")
          ELSE IF ~SchemaExists(rec.schema_id)
          THEN /\ inflight' = [inflight EXCEPT ![w] = [req EXCEPT !.pc = "done"]]
               /\ last' = Resp("patch", 404, "schema")
          ELSE LET fields == schemas[rec.schema_id].fields
                   r == validate_data(fields, Merge(rec.data, delta))
               IN IF ~validate_field_definitions(fields) \/ r.outcome = "invalid"
                  THEN /\ inflight' = [inflight EXCEPT ![w] = [req EXCEPT !.pc = "done"]]
                       /\ last' = Resp("patch", 400, "validation")
                  ELSE IF r.outcome = "crash"
                  THEN /\ inflight' = [inflight EXCEPT ![w] = [req EXCEPT !.pc = "done"]]
                       /\ last' = Resp("patch", 500, "model")
                  ELSE /\ inflight' = [inflight EXCEPT ![w] =
                                [req EXCEPT !.pc = "validated", !.base = rec.data,
                                            !.validated = r.doc]]
                       /\ UNCHANGED last

\* db_data.data = validated_data; db.commit(): the row's data column is
\* replaced by the document this request validated
PatchWrite(w) ==
    /\ inflight[w].pc = "validated"
    /\ records' = [records EXCEPT ![inflight[w].rid].data = inflight[w].validated]
    /\ inflight' = [inflight EXCEPT ![w] = [@ EXCEPT !.pc = "written"]]
    /\ last' = Resp("patch", 200, "")
    /\ UNCHANGED <<schemas, mem, validation, search>>

Deltas == { d \in Docs : Cardinality(DOMAIN d) = 1 }

NextConcurrent ==
    \/ \E fields \in DataSchemas : CreateSchema(fields)
    \/ \E sid \in RequestSchemaIds, d \in Docs : CreateData(sid, d)
    \/ \E w \in Writers, rid \in RecordIds, delta \in Deltas : PatchRead(w, rid, delta)
    \/ \E w \in Writers : PatchWrite(w)

SpecConcurrent == Init /\ [][NextConcurrent]_vars

\* C25: no lost update: when two PATCH requests on the same record with
\* deltas on disjoint fields run in any interleaving and both succeed, the
\* stored document carries the values both requests validated for the fields
\* of their deltas.
C25_NoLostUpdate ==
    \A w1 \in Writers, w2 \in Writers :
        ( /\ w1 # w2
          /\ inflight[w1].pc = "written" /\ inflight[w2].pc = "written"
          /\ inflight[w1].rid = inflight[w2].rid
          /\ DOMAIN inflight[w1].delta \cap DOMAIN inflight[w2].delta = {} )
        => \A k \in DOMAIN inflight[w1].delta \cap DOMAIN inflight[w1].validated :
               /\ k \in DOMAIN records[inflight[w1].rid].data
               /\ records[inflight[w1].rid].data[k] = inflight[w1].validated[k]

====
